---- MODULE Spec2Model ----
(***************************************************************************)
(* Model of swh/model/git.py: the bottom-up tree walker                    *)
(* (walk_and_compute_sha1_from_directory), the cascading removal           *)
(* (__remove_paths_from_objects), the in-memory ancestor recompute         *)
(* (recompute_sha1_in_memory) and the incremental updater                  *)
(* (update_checksums_from), run against a small mutable filesystem.        *)
(*                                                                         *)
(* A path is the sequence obtained by splitting the byte string on '/':    *)
(* b'' is <<"">>, b'/' is <<"","">>, b'/r/a' is <<"","r","a">> and the     *)
(* relative b'r/a' is <<"r","a">>.                                         *)
(***************************************************************************)
EXTENDS Integers, Sequences, FiniteSets, TLC

(***************************************************************************)
(* Bounds of the model.                                                    *)
(***************************************************************************)
\* number of filesystem mutations and update calls in one behaviour
MaxSteps == 4
\* number of change descriptors accumulated between two update calls
MaxPending == 2
\* number of paths given to one removal, and of removals in one behaviour
MaxRemoved == 2
MaxRemovals == 2
\* number of paths given to commonpath and of names in one of them
MaxPaths == 3
MaxDepth == 2

(***************************************************************************)
(* Paths (posixpath).                                                      *)
(***************************************************************************)
ROOT_TREE_KEY == <<"">>

FsRoot == <<"", "">>

Last(s) == s[Len(s)]

Front(s) == SubSeq(s, 1, Len(s) - 1)

AllEmpty(s) == \A i \in 1..Len(s) : s[i] = ""

RECURSIVE rstrip_sep(_)
rstrip_sep(s) ==
    IF AllEmpty(s) THEN <<"">>
    ELSE IF Last(s) = "" THEN rstrip_sep(Front(s))
    ELSE s

\* os.path.dirname
dirname(p) ==
    IF Len(p) = 1 THEN <<"">>
    ELSE LET head == Append(Front(p), "")
         IN  IF AllEmpty(head) THEN head ELSE rstrip_sep(head)

\* os.path.basename
basename(p) == Last(p)

\* os.path.join(dirpath, name) for a name without separator
join(dirpath, name) ==
    IF Last(dirpath) = "" THEN Append(Front(dirpath), name)
    ELSE Append(dirpath, name)

IsPrefix(p, q) == Len(p) <= Len(q) /\ SubSeq(q, 1, Len(p)) = p

(***************************************************************************)
(* The filesystem: a fixed set of slots, each absent or holding a node.    *)
(***************************************************************************)
RootDir == <<"", "r">>
DirA    == <<"", "r", "a">>
DirB    == <<"", "r", "a", "b">>
DirY    == <<"", "r", "a", "b", "y">>
DirC    == <<"", "r", "c">>
FileAF  == <<"", "r", "a", "f">>
FileYF  == <<"", "r", "a", "b", "y", "f">>
FileCG  == <<"", "r", "c", "g">>

DirSlots  == {RootDir, DirA, DirB, DirY, DirC}
FileSlots == {FileAF, FileYF, FileCG}
Slots     == DirSlots \cup FileSlots

\* the order in which a directory listing returns names
NameOrder == <<"f", "g", "a", "b", "c", "y", "r">>

\* a fixed enumeration of the paths, used to iterate over a set of paths
PathOrder == <<ROOT_TREE_KEY, FsRoot, RootDir, DirA, FileAF, DirB, DirY,
               FileYF, DirC, FileCG>>

Contents == {"1", "2"}

Absent  == [kind |-> "none", data |-> ""]
Dir     == [kind |-> "dir",  data |-> ""]
File(c) == [kind |-> "file", data |-> c]
\* a directory that lists its names in the opposite order
DirRev  == [kind |-> "dir",  data |-> "rev"]
\* a symlink to a file (or to nothing) and a symlink to a directory; data is
\* the target string os.readlink returns
Link(t)    == [kind |-> "link",    data |-> t]
DirLink(t) == [kind |-> "dirlink", data |-> t]

Exists(fs, p) == p \in Slots /\ fs[p].kind # "none"

\* os.path.islink
islink(fs, p) == p \in Slots /\ fs[p].kind \in {"link", "dirlink"}

\* os.path.isdir (follows symlinks)
isdir(fs, p) == p \in Slots /\ fs[p].kind \in {"dir", "dirlink"}

\* the slots right under a directory slot, and their names in listing order
SlotsUnder == [p \in DirSlots |-> {q \in Slots : dirname(q) = p}]

NamesUnder == [p \in DirSlots |->
                  SelectSeq(NameOrder, LAMBDA n : join(p, n) \in Slots)]

ChildrenOf(fs, p) ==
    IF p \in DirSlots THEN {q \in SlotsUnder[p] : fs[q].kind # "none"}
    ELSE {}

\* the names of top in the order in which top lists them
scandir(fs, top) ==
    IF fs[top].data = "rev"
    THEN [i \in 1..Len(NamesUnder[top]) |->
             NamesUnder[top][Len(NamesUnder[top]) + 1 - i]]
    ELSE NamesUnder[top]

\* the names os.walk lists under top: (dirnames, filenames)
listdir_dirs(fs, top) ==
    IF top \in DirSlots
    THEN SelectSeq(scandir(fs, top), LAMBDA n : isdir(fs, join(top, n)))
    ELSE <<>>

listdir_files(fs, top) ==
    IF top \in DirSlots
    THEN SelectSeq(scandir(fs, top), LAMBDA n :
             Exists(fs, join(top, n)) /\ ~isdir(fs, join(top, n)))
    ELSE <<>>

(***************************************************************************)
(* Entries and digests.                                                    *)
(***************************************************************************)
GitPermBLOB == "100644"
GitPermTREE == "40000"
GitPermEXEC == "100755"
GitPermLINK == "120000"

GitTypeBLOB == "blob"
GitTypeTREE == "tree"

\* hashutil.hash_data: the content digest of a byte string
hash_data(data) == <<"blob", data>>

\* hashutil.hash_path: the content digest of a file's bytes
hash_path(fs, filepath) == hash_data(fs[filepath].data)

\* identifiers.directory_identifier: the canonical digest of a directory,
\* entries serialized in name order whatever their order in the list
RECURSIVE serialize_entries(_, _)
serialize_entries(entries, i) ==
    IF i > Len(NameOrder) THEN <<>>
    ELSE LET RECURSIVE named(_)
             named(j) ==
                 IF j > Len(entries) THEN <<>>
                 ELSE (IF entries[j].name = NameOrder[i]
                       THEN <<entries[j].perms, entries[j].name>>
                            \o entries[j].target \o <<";">>
                       ELSE <<>>) \o named(j + 1)
         IN  named(1) \o serialize_entries(entries, i + 1)

directory_identifier(directory) ==
    <<"tree", "{">> \o serialize_entries(directory.entries, 1) \o <<"}">>

\* a value of the objects dictionary: a list, or the lazy iterator that
\* filter() returns, of which items is what is left to be read
List(items) == [lazy |-> FALSE, items |-> items]
Lazy(items) == [lazy |-> TRUE,  items |-> items]

\* truth value of a dictionary value: a list is true when non-empty, an
\* iterator object always
Truthy(v) == v.lazy \/ v.items # <<>>

\* reading a value to its end exhausts an iterator
Consume(objects, key) ==
    IF key \in DOMAIN objects /\ objects[key].lazy
    THEN [objects EXCEPT ![key] = Lazy(<<>>)]
    ELSE objects

\* a digest of the entries in the order in which the list holds them
compute_directory_git_sha1_listed(dirpath, hashes) ==
    LET RECURSIVE listed(_)
        listed(i) ==
            IF i > Len(hashes[dirpath].items) THEN <<>>
            ELSE <<hashes[dirpath].items[i].perms,
                   hashes[dirpath].items[i].name>>
                 \o hashes[dirpath].items[i].sha1_git \o <<";">>
                 \o listed(i + 1)
    IN  <<"tree", "{">> \o listed(1) \o <<"}">>

compute_directory_git_sha1(dirpath, hashes) ==
    directory_identifier(
        [entries |->
            [i \in 1..Len(hashes[dirpath].items) |->
                LET entry == hashes[dirpath].items[i]
                IN  [name   |-> entry.name,
                     perms  |-> entry.perms,
                     target |-> entry.sha1_git,
                     type   |-> IF entry.perms = GitPermTREE
                                THEN "dir" ELSE "file"]]])

compute_link_metadata(fs, linkpath) ==
    [sha1_git |-> hash_data(fs[linkpath].data),
     name     |-> basename(linkpath),
     perms    |-> GitPermLINK,
     type     |-> GitTypeBLOB,
     path     |-> linkpath]

compute_blob_metadata(fs, filepath) ==
    [sha1_git |-> hash_path(fs, filepath),
     name     |-> basename(filepath),
     perms    |-> IF fs[filepath].kind = "exec"
                  THEN GitPermEXEC ELSE GitPermBLOB,
     type     |-> GitTypeBLOB,
     path     |-> filepath]

compute_tree_metadata(dirname_, ls_hashes) ==
    [sha1_git |-> compute_directory_git_sha1(dirname_, ls_hashes),
     name     |-> basename(dirname_),
     perms    |-> GitPermTREE,
     type     |-> GitTypeTREE,
     path     |-> dirname_]

(***************************************************************************)
(* The caller's directory filter.                                          *)
(***************************************************************************)
\* "all":      the default, every directory is ok
\* "nonempty": a directory is ok when it exists and holds something (what
\*             a symlink points to lies outside root and holds something)
\* "notb":     a directory is ok unless it is named b
\* "none":     no directory is ok (given to the removal only)
Filters == {"all", "nonempty", "notb"}

dir_ok_fn(f, fs, dirpath) ==
    CASE f = "all"      -> TRUE
      [] f = "nonempty" -> \/ dirpath \notin Slots
                           \/ islink(fs, dirpath)
                           \/ isdir(fs, dirpath)
                              /\ ChildrenOf(fs, dirpath) # {}
      [] f = "notb"     -> basename(dirpath) # "b"
      [] f = "none"     -> FALSE

filtfn(f, fs, dirpath, dirnames) ==
    SelectSeq(dirnames, LAMBDA dn : dir_ok_fn(f, fs, join(dirpath, dn)))

(***************************************************************************)
(* os.walk(top, topdown=False) and os.removedirs.                          *)
(***************************************************************************)
\* a walk that yields a directory before the directories under it
RECURSIVE os_walk_topdown(_, _)
os_walk_topdown(fs, top) ==
    IF ~isdir(fs, top) THEN <<>>
    ELSE LET dns == listdir_dirs(fs, top)
             fns == listdir_files(fs, top)
             RECURSIVE below(_)
             below(i) ==
                 IF i > Len(dns) THEN <<>>
                 ELSE (IF islink(fs, join(top, dns[i])) THEN <<>>
                       ELSE os_walk_topdown(fs, join(top, dns[i])))
                      \o below(i + 1)
         IN  <<[dp |-> top, dns |-> dns, fns |-> fns]>> \o below(1)

RECURSIVE os_walk(_, _)
os_walk(fs, top) ==
    IF ~isdir(fs, top) THEN <<>>
    ELSE LET dns == listdir_dirs(fs, top)
             fns == listdir_files(fs, top)
             RECURSIVE below(_)
             below(i) ==
                 IF i > Len(dns) THEN <<>>
                 ELSE (IF islink(fs, join(top, dns[i])) THEN <<>>
                       ELSE os_walk(fs, join(top, dns[i]))) \o below(i + 1)
         IN  below(1) \o <<[dp |-> top, dns |-> dns, fns |-> fns]>>

RECURSIVE rmdir_parents(_, _)
rmdir_parents(fs, head) ==
    IF head \in DirSlots /\ fs[head].kind = "dir" /\ ChildrenOf(fs, head) = {}
    THEN rmdir_parents([fs EXCEPT ![head] = Absent], dirname(head))
    ELSE fs

\* os.removedirs: rmdir of the leaf, which raises when it fails, then of
\* every parent until one fails
removedirs(st, name) ==
    IF name \in DirSlots /\ st.fs[name].kind = "dir"
       /\ ChildrenOf(st.fs, name) = {}
    THEN [st EXCEPT !.fs = rmdir_parents([st.fs EXCEPT ![name] = Absent],
                                         dirname(name))]
    ELSE [st EXCEPT !.ok = FALSE]

\* the first round-trip of the walk: os.walk lists a directory, descends,
\* and only then yields it, so the removals interleave with the traversal
RECURSIVE remove_empty_folders(_, _, _)
remove_empty_folders(f, st, top) ==
    IF ~st.ok \/ ~isdir(st.fs, top) THEN st
    ELSE LET dns == listdir_dirs(st.fs, top)
             fns == listdir_files(st.fs, top)
             RECURSIVE below(_, _)
             below(s, i) ==
                 IF i > Len(dns) THEN s
                 ELSE below(IF islink(s.fs, join(top, dns[i])) THEN s
                            ELSE remove_empty_folders(f, s, join(top, dns[i])),
                            i + 1)
             s1 == below(st, 1)
         IN  IF ~s1.ok \/ ~dir_ok_fn(f, s1.fs, top) THEN s1
             ELSE IF filtfn(f, s1.fs, top, dns) = <<>> /\ fns = <<>>
             THEN IF islink(s1.fs, top)
                  THEN [s1 EXCEPT !.fs = [s1.fs EXCEPT ![top] = Absent]]
                  ELSE removedirs(s1, top)
             ELSE s1

(***************************************************************************)
(* walk_and_compute_sha1_from_directory.                                   *)
(***************************************************************************)
\* one round of the hashing loop, for the directory gen_dir yields
hash_directory(f, fs, acc, d) ==
    LET dirpath   == d.dp
        dirnames  == filtfn(f, fs, dirpath, d.dns)
        filenames == d.fns
        links     == SelectSeq(filenames \o dirnames,
                         LAMBDA n : islink(fs, join(dirpath, n)))
        all_links == acc.all_links
                     \cup {join(dirpath, links[i]) : i \in 1..Len(links)}
        only_files == SelectSeq(filenames,
                         LAMBDA n : join(dirpath, n) \notin all_links)
        hashes    == [i \in 1..Len(links) |->
                         compute_link_metadata(fs, join(dirpath, links[i]))]
                     \o [i \in 1..Len(only_files) |->
                         compute_blob_metadata(fs, join(dirpath, only_files[i]))]
        subdirs   == SelectSeq(dirnames,
                         LAMBDA n : join(dirpath, n) \notin all_links)
        missing   == \E i \in 1..Len(subdirs) :
                         join(dirpath, subdirs[i]) \notin DOMAIN acc.ls_hashes
        dir_hashes == [i \in 1..Len(subdirs) |->
                         compute_tree_metadata(join(dirpath, subdirs[i]),
                                               acc.ls_hashes)]
    IN  IF missing THEN [acc EXCEPT !.ok = FALSE]
        ELSE [acc EXCEPT
                !.all_links = all_links,
                !.ls_hashes = (dirpath :> List(hashes \o dir_hashes))
                              @@ acc.ls_hashes]

RECURSIVE hash_directories(_, _, _, _, _)
hash_directories(f, fs, acc, gen, i) ==
    IF i > Len(gen) \/ ~acc.ok THEN acc
    ELSE hash_directories(f, fs,
            IF dir_ok_fn(f, fs, gen[i].dp)
            THEN hash_directory(f, fs, acc, gen[i]) ELSE acc,
            gen, i + 1)

NoIndex == <<>>

\* the result is [ok, fs, index]: ok is FALSE when the walk raises, fs is
\* the filesystem the walk leaves, index is ls_hashes
walk_and_compute_sha1_from_directory(fs0, rootdir0, f, with_root_tree, remove_empty_folder) ==
    LET rootdir == IF Len(rootdir0) > 1 /\ Last(rootdir0) = ""
                   THEN rstrip_sep(rootdir0) ELSE rootdir0
        \* the end of the walk, given what the two loops left
        result(fs, ok, ls_hashes) ==
            IF ~ok
            THEN [ok |-> FALSE, fs |-> fs, index |-> NoIndex]
            ELSE IF ~with_root_tree
            THEN [ok |-> TRUE, fs |-> fs, index |-> ls_hashes]
            ELSE IF rootdir \notin DOMAIN ls_hashes
            THEN [ok |-> FALSE, fs |-> fs, index |-> NoIndex]
            ELSE [ok |-> TRUE, fs |-> fs,
                  index |-> (ROOT_TREE_KEY :>
                      List(<<[sha1_git |->
                                  compute_directory_git_sha1(rootdir, ls_hashes),
                              path  |-> rootdir,
                              name  |-> basename(rootdir),
                              perms |-> GitPermTREE,
                              type  |-> GitTypeTREE]>>)) @@ ls_hashes]
        \* the hashing loop, over the filesystem the first loop left
        hashed(fs, hashes) ==
            result(fs, hashes.ok, hashes.ls_hashes)
        hashing(pruned) ==
            IF ~pruned.ok THEN result(pruned.fs, FALSE, NoIndex)
            ELSE hashed(pruned.fs,
                     hash_directories(f, pruned.fs,
                         [ok |-> TRUE, all_links |-> {}, ls_hashes |-> NoIndex],
                         os_walk(pruned.fs, rootdir), 1))
    IN  hashing(IF remove_empty_folder
                THEN remove_empty_folders(f, [ok |-> TRUE, fs |-> fs0], rootdir)
                ELSE [ok |-> TRUE, fs |-> fs0])

(***************************************************************************)
(* commonpath.                                                             *)
(***************************************************************************)
Rank(n) == CHOOSE i \in 1..Len(NameOrder) : NameOrder[i] = n

\* list comparison s < t, on the components (any total order of the names
\* gives the same common prefix of min and max)
RECURSIVE LexLess(_, _)
LexLess(s, t) ==
    IF t = <<>> THEN FALSE
    ELSE IF s = <<>> THEN TRUE
    ELSE IF s[1] = t[1] THEN LexLess(Tail(s), Tail(t))
    ELSE Rank(s[1]) < Rank(t[1])

RECURSIVE CommonPrefix(_, _)
CommonPrefix(s1, s2) ==
    IF s1 = <<>> \/ s2 = <<>> \/ s1[1] # s2[1] THEN <<>>
    ELSE <<s1[1]>> \o CommonPrefix(Tail(s1), Tail(s2))

\* p[:1] == sep
StartsWithSep(p) == Len(p) > 1 /\ p[1] = ""

\* a commonpath that takes absolute and relative paths together
commonpath_mixing(paths) ==
    LET split_paths == {SelectSeq(p, LAMBDA c : c # "" /\ c # ".") : p \in paths}
        s1 == CHOOSE s \in split_paths :
                  \A t \in split_paths : ~LexLess(t, s)
        s2 == CHOOSE s \in split_paths :
                  \A t \in split_paths : ~LexLess(s, t)
        common == CommonPrefix(s1, s2)
    IN  IF paths = {} THEN [ok |-> FALSE, path |-> <<"">>]
        ELSE [ok |-> TRUE,
              path |-> IF common = <<>> THEN FsRoot ELSE <<"">> \o common]

\* a commonpath that compares the shortest path with the longest
commonpath_by_length(paths) ==
    LET isabs == {StartsWithSep(p) : p \in paths}
        split_paths == {SelectSeq(p, LAMBDA c : c # "" /\ c # ".") : p \in paths}
        s1 == CHOOSE s \in split_paths :
                  \A t \in split_paths : Len(s) <= Len(t)
        s2 == CHOOSE s \in split_paths :
                  \A t \in split_paths : Len(t) <= Len(s)
        common == CommonPrefix(s1, s2)
    IN  IF paths = {} \/ Cardinality(isabs) # 1
        THEN [ok |-> FALSE, path |-> <<"">>]
        ELSE IF TRUE \in isabs
        THEN [ok |-> TRUE,
              path |-> IF common = <<>> THEN FsRoot ELSE <<"">> \o common]
        ELSE [ok |-> TRUE,
              path |-> IF common = <<>> THEN <<"">> ELSE common]

\* the result is [ok, path]: ok is FALSE when commonpath raises ValueError
commonpath(paths) ==
    LET isabs == {StartsWithSep(p) : p \in paths}
        split_paths == {SelectSeq(p, LAMBDA c : c # "" /\ c # ".") : p \in paths}
        s1 == CHOOSE s \in split_paths :
                  \A t \in split_paths : ~LexLess(t, s)
        s2 == CHOOSE s \in split_paths :
                  \A t \in split_paths : ~LexLess(s, t)
        common == CommonPrefix(s1, s2)
    IN  IF paths = {} \/ Cardinality(isabs) # 1
        THEN [ok |-> FALSE, path |-> <<"">>]
        ELSE IF TRUE \in isabs
        THEN [ok |-> TRUE,
              path |-> IF common = <<>> THEN FsRoot ELSE <<"">> \o common]
        ELSE [ok |-> TRUE,
              path |-> IF common = <<>> THEN <<"">> ELSE common]

(***************************************************************************)
(* __remove_paths_from_objects.                                            *)
(***************************************************************************)
Reverse(s) == [i \in 1..Len(s) |-> s[Len(s) + 1 - i]]

\* the order in which a set of paths is iterated: one of two
IterationOrder(S, rev) ==
    SelectSeq(IF rev THEN Reverse(PathOrder) ELSE PathOrder,
              LAMBDA q : q \in S)

Without(objects, key) == [k \in DOMAIN objects \ {key} |-> objects[k]]

\* lambda p: p != path, of an Entry p and a path: an Entry is a mapping and
\* a path a byte string, which are never equal
EntryIsNotPath(p, path) == TRUE

\* a removal that queues the parent of every path, whatever the filter says
remove_one_path_upward(f, fs, acc, path) ==
    LET popped    == path \in DOMAIN acc.objects
        path_list == acc.objects[path]
        objects   == Without(acc.objects, path)
        children  == IF popped /\ Truthy(path_list)
                     THEN {path_list.items[i].path :
                              i \in {j \in 1..Len(path_list.items) :
                                  path_list.items[j].type = GitTypeTREE}}
                     ELSE {}
        to_clean  == acc.dirpaths_to_clean \cup children
        parent    == dirname(path)
    IN  IF parent \notin to_clean
        THEN [objects |-> objects,
              dirpaths_to_clean |-> to_clean \cup {parent}]
        ELSE [objects |-> objects, dirpaths_to_clean |-> to_clean]

\* a removal that pops the path and does not queue its popped children
remove_one_path_unqueued(f, fs, acc, path) ==
    LET objects      == Without(acc.objects, path)
        to_clean     == acc.dirpaths_to_clean
        parent       == dirname(path)
        parent_check == dir_ok_fn(f, fs, parent)
    IN  IF ~parent_check /\ parent \notin to_clean
        THEN [objects |-> objects,
              dirpaths_to_clean |-> to_clean \cup {parent}]
        ELSE IF parent \in DOMAIN objects /\ Truthy(objects[parent])
        THEN [objects |-> [objects EXCEPT ![parent] =
                  Lazy(SelectSeq(objects[parent].items,
                                 LAMBDA p : EntryIsNotPath(p, path)))],
              dirpaths_to_clean |-> to_clean]
        ELSE [objects |-> objects, dirpaths_to_clean |-> to_clean]

remove_one_path(f, fs, acc, path) ==
    LET popped    == path \in DOMAIN acc.objects
        path_list == acc.objects[path]
        objects   == Without(acc.objects, path)
        children  == IF popped /\ Truthy(path_list)
                     THEN {path_list.items[i].path :
                              i \in {j \in 1..Len(path_list.items) :
                                  path_list.items[j].type = GitTypeTREE}}
                     ELSE {}
        to_clean  == acc.dirpaths_to_clean \cup children
        parent    == dirname(path)
        parent_check == dir_ok_fn(f, fs, parent)
    IN  IF ~parent_check /\ parent \notin to_clean
        THEN [objects |-> objects,
              dirpaths_to_clean |-> to_clean \cup {parent}]
        ELSE IF parent \in DOMAIN objects /\ Truthy(objects[parent])
        THEN [objects |-> [objects EXCEPT ![parent] =
                  Lazy(SelectSeq(objects[parent].items,
                                 LAMBDA p : EntryIsNotPath(p, path)))],
              dirpaths_to_clean |-> to_clean]
        ELSE [objects |-> objects, dirpaths_to_clean |-> to_clean]

RECURSIVE remove_each_path(_, _, _, _, _)
remove_each_path(f, fs, acc, rootpaths, i) ==
    IF i > Len(rootpaths) THEN acc
    ELSE remove_each_path(f, fs, remove_one_path(f, fs, acc, rootpaths[i]),
                          rootpaths, i + 1)

\* the result is [ok, objects]: ok is FALSE when the recursion never ends
\* (the same paths queued again over the same dictionary: RecursionError)
RECURSIVE remove_paths_from_objects(_, _, _, _, _)
remove_paths_from_objects(objects, rootpaths, f, fs, rev) ==
    LET acc == remove_each_path(f, fs,
                   [objects |-> objects, dirpaths_to_clean |-> {}],
                   IterationOrder(rootpaths, rev), 1)
    IN  IF acc.dirpaths_to_clean = {}
        THEN [ok |-> TRUE, objects |-> acc.objects]
        ELSE IF acc.dirpaths_to_clean = rootpaths /\ acc.objects = objects
        THEN [ok |-> FALSE, objects |-> acc.objects]
        ELSE remove_paths_from_objects(acc.objects, acc.dirpaths_to_clean,
                                       f, fs, rev)

(***************************************************************************)
(* recompute_sha1_in_memory.                                               *)
(***************************************************************************)
\* the for loop over files = objects[rootdir], from its i-th item on; files
\* is what was left to read of objects[rootdir] when the loop started
RECURSIVE recompute_files(_, _, _, _)
recompute_files(acc, rootdir, files, i) ==
    IF i > Len(files.items) \/ ~acc.ok THEN acc
    ELSE LET hashfile == files.items[i]
             fulldirname == hashfile.path
             objects == acc.objects
         IN  IF hashfile.type = GitTypeTREE
             THEN IF fulldirname \notin DOMAIN objects
                  THEN \* KeyError: an iterator being read stays where it was
                       [acc EXCEPT !.ok = FALSE,
                           !.objects = IF i = 1 /\ files.lazy
                                       THEN [objects EXCEPT ![rootdir] =
                                           Lazy(SubSeq(files.items, 2,
                                                       Len(files.items)))]
                                       ELSE objects]
                  ELSE LET tree_hash == compute_tree_metadata(fulldirname,
                                                              objects)
                           ls_hashes == Append(acc.ls_hashes, tree_hash)
                       IN  recompute_files(
                               [acc EXCEPT
                                   !.ls_hashes = ls_hashes,
                                   !.objects = [Consume(objects, fulldirname)
                                       EXCEPT ![rootdir] = List(ls_hashes)]],
                               rootdir, files, i + 1)
             ELSE LET ls_hashes == Append(acc.ls_hashes, hashfile)
                  IN  recompute_files(
                          [acc EXCEPT
                              !.ls_hashes = ls_hashes,
                              !.objects = [objects EXCEPT ![rootdir] =
                                              List(ls_hashes)]],
                          rootdir, files, i + 1)

\* the while loop, from rootdir up to upper_root
RECURSIVE recompute_levels(_, _, _)
recompute_levels(st, rootdir, upper_root) ==
    IF ~st.ok \/ rootdir = upper_root THEN st
    ELSE IF rootdir \notin DOMAIN st.objects
    THEN [st EXCEPT !.ok = FALSE]
    ELSE LET files == st.objects[rootdir]
             acc == recompute_files(
                        [ok |-> TRUE,
                         objects |-> Consume(st.objects, rootdir),
                         ls_hashes |-> <<>>],
                        rootdir, files, 1)
             next == [ok |-> acc.ok, objects |-> acc.objects]
         IN  IF dirname(rootdir) = rootdir
             THEN \* the loop never leaves this level
                  [next EXCEPT !.ok = FALSE]
             ELSE recompute_levels(next, dirname(rootdir), upper_root)

\* a recompute that leaves the sentinel root Entry as it was
update_root_skipped(root, objects) == [ok |-> TRUE, objects |-> objects]

\* the last statements: the digest of the sentinel root Entry
update_root(root, objects) ==
    IF root \notin DOMAIN objects THEN [ok |-> FALSE, objects |-> objects]
    ELSE LET root_tree_hash == compute_directory_git_sha1(root, objects)
             read == Consume(objects, root)
         IN  IF read[ROOT_TREE_KEY].lazy \/ read[ROOT_TREE_KEY].items = <<>>
             THEN [ok |-> FALSE, objects |-> read]
             ELSE [ok |-> TRUE,
                   objects |-> [read EXCEPT
                       ![ROOT_TREE_KEY].items[1].sha1_git = root_tree_hash]]

\* the result is [ok, objects]: ok is FALSE when the recompute raises or
\* never returns, objects is the dictionary as the call leaves it
recompute_sha1_in_memory(root, deeper_rootdir, objects) ==
    LET st == recompute_levels([ok |-> TRUE, objects |-> objects],
                               dirname(deeper_rootdir), dirname(root))
    IN  IF ~st.ok THEN st ELSE update_root(root, st.objects)

(***************************************************************************)
(* update_checksums_from.                                                  *)
(***************************************************************************)
\* objects.update(hashes)
DictUpdate(objects, hashes) == hashes @@ objects

\* a first round-trip that looks at the deleted paths only
root_adjacent_deletions_only(changed_paths, root) ==
    \E changed_path \in changed_paths :
        changed_path.action = "D" /\ dirname(changed_path.path) = root

\* the first round-trip: a changed path directly under root
root_adjacent(changed_paths, root) ==
    \E changed_path \in changed_paths : dirname(changed_path.path) = root

\* paths: the parents of the changed paths
impacted_paths(changed_paths) ==
    {dirname(changed_path.path) : changed_path \in changed_paths}

\* paths_to_remove: the changed paths whose action is D
deletion_paths(changed_paths) ==
    {changed_path.path :
        changed_path \in {c \in changed_paths : c.action = "D"}}

\* an update that goes on with no path
no_modification_ignored(paths) == FALSE

\* if not paths
no_modification(paths) == paths = {}

\* if not objects.get(rootdir, None)
rootdir_is_gone(objects, rootdir) ==
    ~(rootdir \in DOMAIN objects /\ Truthy(objects[rootdir]))

\* the full walk update returns when a changed path lies right under root
rebuild_all(fs0, root, f, remove_empty_folder) ==
    walk_and_compute_sha1_from_directory(fs0, root, f, TRUE,
                                         remove_empty_folder)

\* the full walk update returns when rootdir is no longer in objects
recompute_all(fs0, root, f, remove_empty_folder) ==
    walk_and_compute_sha1_from_directory(fs0, root, f, TRUE,
                                         remove_empty_folder)

\* the result is [how, ok, fs, ret, held, cleaned]: how names the return
\* statement reached ("rootadj", "empty", "fallback", "partial") or the call
\* that raised; ok is FALSE when the call raises; fs is the filesystem it
\* leaves; ret is the dictionary returned and held the dictionary that was
\* passed in, as the call leaves it; cleaned is that dictionary as it was
\* after the removal of the deleted paths
update_checksums_from(changed_paths, objects0, f, remove_empty_folder, fs0, rev) ==
    LET root0 == objects0[ROOT_TREE_KEY].items[1].path
        root  == IF Len(root0) > 1 /\ Last(root0) = ""
                 THEN rstrip_sep(root0) ELSE root0
        paths == impacted_paths(changed_paths)
        paths_to_remove == deletion_paths(changed_paths)
        raised(how, fs1, dict) ==
            [how |-> how, ok |-> FALSE, fs |-> fs1, ret |-> dict,
             held |-> dict, cleaned |-> dict]
        \* return walk_and_compute_sha1_from_directory(root, ...): w is what
        \* the walk gives, dict the dictionary the caller passed in
        rebuilt(how, w, dict) ==
            IF ~w.ok THEN raised(how, w.fs, dict)
            ELSE [how |-> how, ok |-> TRUE, fs |-> w.fs, ret |-> w.index,
                  held |-> dict, cleaned |-> dict]
        \* return recompute_sha1_in_memory(root, rootdir, objects)
        recomputed(w, r, objects) ==
            [how |-> "partial", ok |-> r.ok, fs |-> w.fs, ret |-> r.objects,
             held |-> r.objects, cleaned |-> objects]
        \* objects.update(hashes), hashes being what the walk w gives
        merged(w, rootdir, objects) ==
            IF ~w.ok THEN raised("partial", w.fs, objects)
            ELSE recomputed(w,
                     recompute_sha1_in_memory(root, rootdir,
                                              DictUpdate(objects, w.index)),
                     objects)
        \* from the test on objects.get(rootdir) on
        removed(rootdir, cleanup) ==
            IF ~cleanup.ok THEN raised("remove", fs0, cleanup.objects)
            ELSE IF rootdir_is_gone(cleanup.objects, rootdir)
            THEN rebuilt("fallback",
                         recompute_all(fs0, root, f, remove_empty_folder),
                         cleanup.objects)
            ELSE merged(walk_and_compute_sha1_from_directory(
                            fs0, rootdir, f, FALSE, remove_empty_folder),
                        rootdir, cleanup.objects)
        \* from rootdir = commonpath(list(paths)) on
        located(common) ==
            IF ~common.ok THEN raised("commonpath", fs0, objects0)
            ELSE removed(common.path,
                     IF paths_to_remove # {}
                     THEN remove_paths_from_objects(objects0, paths_to_remove,
                                                    f, fs0, rev)
                     ELSE [ok |-> TRUE, objects |-> objects0])
    IN  IF root_adjacent(changed_paths, root)
        THEN rebuilt("rootadj",
                     rebuild_all(fs0, root, f, remove_empty_folder), objects0)
        ELSE IF no_modification(paths)
        THEN [how |-> "empty", ok |-> TRUE, fs |-> fs0, ret |-> objects0,
              held |-> objects0, cleaned |-> objects0]
        ELSE located(commonpath(paths))

(***************************************************************************)
(* The state machine: a caller that builds the index with a walk, changes  *)
(* the filesystem, and calls update with a list of change descriptors.     *)
(***************************************************************************)
VARIABLES
    fs,         \* the filesystem: slot -> node
    objects,    \* the index the caller goes on with: the last value returned
    held,       \* the dictionary passed to the last call, as the call left it
    cleaned,    \* that dictionary right after the removal of deleted paths
    status,     \* "none": no index yet, "ok": last call returned, "error"
    dir_ok,     \* the caller's filter, one of Filters
    remove_empty_folder,    \* the caller's flag
    pending,    \* descriptors of the mutations since the last call
    deep,       \* no mutation since the walk touched a path right under root
    steps,      \* mutations and updates so far
    last        \* the last call: what it was given and how it returned

vars == <<fs, objects, held, cleaned, status, dir_ok, remove_empty_folder,
          pending, deep, steps, last>>

\* the trees a behaviour starts from: every slot filled, and a tree where
\* each of a and c holds one file
Tree(present) ==
    [q \in Slots |-> IF q \notin present THEN Absent
                     ELSE IF q \in DirSlots THEN Dir ELSE File("1")]

Trees == {Tree(Slots), Tree({RootDir, DirA, FileAF, DirC, FileCG})}

NoCall == [op |-> "none", how |-> "", ok |-> TRUE, changes |-> {}]

Init ==
    /\ fs \in Trees
    /\ objects = NoIndex
    /\ held = NoIndex
    /\ cleaned = NoIndex
    /\ status = "none"
    /\ dir_ok \in Filters
    /\ remove_empty_folder \in BOOLEAN
    /\ pending = {}
    /\ deep = TRUE
    /\ steps = 0
    /\ last = NoCall

\* the caller builds the index from scratch
Walk ==
    /\ status \in {"none", "error"}
    /\ \E w \in {walk_and_compute_sha1_from_directory(
                    fs, RootDir, dir_ok, TRUE, remove_empty_folder)} :
           /\ fs' = w.fs
           /\ objects' = w.index
           /\ held' = w.index
           /\ cleaned' = w.index
           /\ status' = IF w.ok THEN "ok" ELSE "error"
           /\ last' = [op |-> "walk", how |-> "walk", ok |-> w.ok,
                       changes |-> {}]
    /\ pending' = {}
    /\ deep' = TRUE
    /\ UNCHANGED <<dir_ok, remove_empty_folder, steps>>

Mutated(t, change) ==
    /\ status = "ok"
    /\ steps < MaxSteps
    /\ Cardinality(pending \cup {change}) <= MaxPending
    /\ fs' = t
    /\ pending' = pending \cup {change}
    /\ deep' = (deep /\ dirname(change.path) # RootDir)
    /\ steps' = steps + 1
    /\ UNCHANGED <<objects, held, cleaned, status, dir_ok,
                   remove_empty_folder, last>>

\* a file is created, or written with another content
WriteFile ==
    \E q \in FileSlots, c \in Contents :
        /\ fs[dirname(q)].kind = "dir"
        /\ fs[q] # File(c)
        /\ Mutated([fs EXCEPT ![q] = File(c)],
                   [path |-> q,
                    action |-> IF fs[q].kind = "none" THEN "A" ELSE "M"])

DeleteFile ==
    \E q \in FileSlots :
        /\ fs[q].kind # "none"
        /\ Mutated([fs EXCEPT ![q] = Absent], [path |-> q, action |-> "D"])

MakeDir ==
    \E q \in DirSlots \ {RootDir} :
        /\ fs[dirname(q)].kind = "dir"
        /\ fs[q].kind = "none"
        /\ Mutated([fs EXCEPT ![q] = Dir], [path |-> q, action |-> "A"])

\* a directory is deleted with all it holds
DeleteDir ==
    \E q \in DirSlots \ {RootDir} :
        /\ fs[q].kind = "dir"
        /\ Mutated([p \in Slots |-> IF IsPrefix(q, p) THEN Absent ELSE fs[p]],
                   [path |-> q, action |-> "D"])

\* the caller calls update with the descriptors of the mutations it made
Update ==
    \E rev \in BOOLEAN :
        /\ status = "ok"
        /\ steps < MaxSteps
        /\ \E u \in {update_checksums_from(pending, objects, dir_ok,
                                            remove_empty_folder, fs, rev)} :
               /\ fs' = u.fs
               /\ objects' = u.ret
               /\ held' = u.held
               /\ cleaned' = u.cleaned
               /\ status' = IF u.ok THEN "ok" ELSE "error"
               /\ last' = [op |-> "update", how |-> u.how, ok |-> u.ok,
                           changes |-> pending]
        /\ pending' = {}
        /\ steps' = steps + 1
        /\ UNCHANGED <<dir_ok, remove_empty_folder, deep>>

Next ==
    \/ Walk
    \/ WriteFile
    \/ DeleteFile
    \/ MakeDir
    \/ DeleteDir
    \/ Update

Spec == Init /\ [][Next]_vars

(***************************************************************************)
(* The walker alone, over directory trees with symlinks, empty             *)
(* directories and directories of either listing order.                    *)
(***************************************************************************)
MakeTree(r, a, af, b, y, yf, c, cg) ==
    (RootDir :> r) @@ (DirA :> a) @@ (FileAF :> af) @@ (DirB :> b)
    @@ (DirY :> y) @@ (FileYF :> yf) @@ (DirC :> c) @@ (FileCG :> cg)

\* nothing exists under what is not a directory
Nested(t) ==
    \A q \in Slots \ {RootDir} :
        t[q].kind # "none" => t[dirname(q)].kind = "dir"

WalkTrees ==
    {t \in {MakeTree(r, a, af, b, y, yf, c, cg) :
                r \in {Dir, DirRev}, a \in {Absent, Dir},
                af \in {Absent, File("1"), Link("1")},
                b \in {Absent, Dir, DirLink("2")},
                y \in {Absent, Dir}, yf \in {Absent, File("1")},
                c \in {Absent, Dir, DirLink("2")},
                cg \in {Absent, File("1")}} : Nested(t)}

InitWalk ==
    /\ fs \in WalkTrees
    /\ objects = NoIndex
    /\ held = NoIndex
    /\ cleaned = NoIndex
    /\ status = "none"
    /\ dir_ok \in Filters
    /\ remove_empty_folder \in BOOLEAN
    /\ pending = {}
    /\ deep = TRUE
    /\ steps = 0
    /\ last = NoCall

SpecWalk == InitWalk /\ [][Walk]_vars

(***************************************************************************)
(* Properties.                                                             *)
(***************************************************************************)
\* what a full walk of the filesystem as it is now returns
FullWalk ==
    walk_and_compute_sha1_from_directory(fs, RootDir, dir_ok, TRUE,
                                         remove_empty_folder)

RootDigest(index) == index[ROOT_TREE_KEY].items[1].sha1_git

\* update has just returned an index
Returned == status = "ok" /\ last.op = "update" /\ pending = {}

\* C1: after reported mutations that all lie deeper than root's own
\* children, the root digest of the index update returns is the root
\* digest of a full walk of the filesystem.
C1_IncrementalEqualsFull ==
    (Returned /\ deep /\ FullWalk.ok)
        => RootDigest(objects) = RootDigest(FullWalk.index)

\* the same for callers that do not ask for empty folders to be removed
C1_WithoutPrune ==
    ~remove_empty_folder => C1_IncrementalEqualsFull

\* every tree-typed Entry of the index has its own path as a key
Closure(index) ==
    \A p \in DOMAIN index : \A i \in 1..Len(index[p].items) :
        index[p].items[i].type = GitTypeTREE
            => index[p].items[i].path \in DOMAIN index

\* C2: in every index walk or update returns, the path of every tree-typed
\* Entry is a key of the index.
C2_Closure == status = "ok" => Closure(objects)

\* C3: in every index walk or update returns, the digest of every
\* tree-typed Entry is the tree digest of the entry list stored under the
\* Entry's path.
C3_Merkle ==
    status = "ok" =>
        \A p \in DOMAIN objects : \A i \in 1..Len(objects[p].items) :
            LET e == objects[p].items[i]
            IN  (e.type = GitTypeTREE /\ e.path \in DOMAIN objects)
                    => e.sha1_git = compute_directory_git_sha1(e.path, objects)

\* C4: after a walk and after every update that returns, the digest of the
\* sentinel root Entry is the tree digest of the entry list of root.
C4_RootDigest ==
    status = "ok" =>
        /\ RootDir \in DOMAIN objects
        /\ RootDigest(objects) = compute_directory_git_sha1(RootDir, objects)

\* a partial update that was given a modified file has returned, and the
\* digest of the sentinel root Entry is the tree digest of the list of root
C4_Witness ==
    /\ Returned
    /\ last.how = "partial"
    /\ RootDigest(objects) = compute_directory_git_sha1(RootDir, objects)
    /\ \E c \in last.changes : c.action = "M"

\* a step of Update
UpdateStep == steps' = steps + 1 /\ pending' = {}

\* some change is to a path whose parent is root
TouchesRoot(changes) == \E c \in changes : dirname(c.path) = RootDir

HasEntryFor(index, dirpath, path) ==
    /\ dirpath \in DOMAIN index
    /\ \E i \in 1..Len(index[dirpath].items) :
           index[dirpath].items[i].path = path

\* C5: when the deleted paths were all that a directory D held and D then
\* fails the filter, the removal leaves D out of the keys and leaves no
\* Entry for D in the entry list of D's parent.
C5_DeletionCascade ==
    [][UpdateStep =>
        \A c \in pending :
            LET D == dirname(c.path)
            IN  (/\ c.action = "D"
                 /\ ~TouchesRoot(pending)
                 /\ D \in DOMAIN objects
                 /\ ChildrenOf(fs, D) = {}
                 /\ ~dir_ok_fn(dir_ok, fs, D))
                    => /\ D \notin DOMAIN cleaned'
                       /\ ~HasEntryFor(cleaned', dirname(D), D)]_vars

\* C6: when a changed path lies right under root, update returns exactly
\* what a full walk of the filesystem returns, and raises when it raises.
C6_RootAdjacentRebuild ==
    [][(UpdateStep /\ TouchesRoot(pending)) =>
        /\ (status' = "ok") = FullWalk.ok
        /\ fs' = FullWalk.fs
        /\ FullWalk.ok => objects' = FullWalk.index]_vars

\* an update given a change right under root has returned
C6_Witness ==
    /\ Returned
    /\ last.how = "rootadj"
    /\ TouchesRoot(last.changes)
    /\ Cardinality(last.changes) > 1

\* C7: after update returns, the dictionary that was passed in is the
\* dictionary returned.
C7_InPlace == (status = "ok" /\ last.op = "update") => held = objects

\* C9: update given no change returns the index it was given, and leaves
\* the filesystem as it was.
C9_EmptyChangeList ==
    [][(UpdateStep /\ pending = {}) =>
        /\ status' = "ok"
        /\ objects' = objects
        /\ held' = objects
        /\ fs' = fs]_vars

\* an update given no change has returned
C9_Witness == Returned /\ last.changes = {} /\ last.how = "empty"

\* C10: after a walk, a directory under root that fails the filter is no
\* key, no directory below it is a key, and no entry list has an Entry for it.
C10_FilterExclusion ==
    (status = "ok" /\ last.op = "walk") =>
        \A d \in DirSlots :
            (isdir(fs, d) /\ ~dir_ok_fn(dir_ok, fs, d)) =>
                /\ \A k \in DOMAIN objects : ~IsPrefix(d, k)
                /\ ~HasEntryFor(objects, dirname(d), d)

Blobs(items) == SelectSeq(items, LAMBDA e : e.type = GitTypeBLOB)

\* the frame of an update from index to index2 that re-walked commonroot
\* after the changes: keys off the chain and outside the subtree keep their
\* entry list, blobs outside the subtree are kept, and a tree Entry with no
\* change below it keeps its digest
PartialFrame(index, index2, commonroot, changes) ==
    \A k \in DOMAIN index \ {ROOT_TREE_KEY} :
        ~IsPrefix(commonroot, k) =>
            /\ k \in DOMAIN index2
            /\ ~IsPrefix(k, commonroot)
                   => index2[k].items = index[k].items
            /\ Blobs(index2[k].items) = Blobs(index[k].items)
            /\ \A i \in 1..Len(index[k].items) :
                   LET e == index[k].items[i]
                   IN  (/\ e.type = GitTypeTREE
                        /\ \A c \in changes : ~IsPrefix(e.path, c.path))
                           => \E j \in 1..Len(index2[k].items) :
                                  index2[k].items[j] = e

\* C8: when update re-walks commonroot and recomputes its ancestors, only
\* the digests on the chain from commonroot up to root change.
C8_PartialFrame ==
    [][(UpdateStep /\ last'.how = "partial" /\ status' = "ok") =>
        PartialFrame(objects, objects',
                     commonpath(impacted_paths(pending)).path, pending)]_vars

\* the same frame for callers that do not ask for empty folders to be removed
C8_WithoutPrune ==
    [][(UpdateStep /\ last'.how = "partial" /\ status' = "ok"
        /\ ~remove_empty_folder) =>
        PartialFrame(objects, objects',
                     commonpath(impacted_paths(pending)).path, pending)]_vars

(***************************************************************************)
(* The caller of Spec, who may also report a path relative to the current  *)
(* directory among the descriptors it passes to update.                    *)
(***************************************************************************)
\* b'r/a/f' for b'/r/a/f'
Relative(q) == Tail(q)

UpdateRelative ==
    \E rev \in BOOLEAN :
        /\ status = "ok"
        /\ steps < MaxSteps
        /\ \E changes \in {pending \cup
                              {[path |-> Relative(FileAF), action |-> "M"]}} :
           \E u \in {update_checksums_from(changes, objects, dir_ok,
                                            remove_empty_folder, fs, rev)} :
               /\ fs' = u.fs
               /\ objects' = u.ret
               /\ held' = u.held
               /\ cleaned' = u.cleaned
               /\ status' = IF u.ok THEN "ok" ELSE "error"
               /\ last' = [op |-> "update", how |-> u.how, ok |-> u.ok,
                           changes |-> changes]
        /\ pending' = {}
        /\ steps' = steps + 1
        /\ UNCHANGED <<dir_ok, remove_empty_folder, deep>>

NextRelative ==
    \/ Next
    \/ UpdateRelative

SpecRelative == Init /\ [][NextRelative]_vars

\* p[:1] == sep, of a path p
IsAbsolute(p) == Len(p) > 1 /\ p[1] = ""

\* the parents of the changed paths mix absolute and relative paths
MixedParents(changes) ==
    \E c1 \in changes, c2 \in changes :
        IsAbsolute(dirname(c1.path)) /\ ~IsAbsolute(dirname(c2.path))

\* C13: when the parents of the changed paths mix absolute and relative
\* paths and no changed path lies right under root, update raises and the
\* index and the filesystem are as they were before the call.
C13_MixedPathsLeaveIndex ==
    [][(UpdateStep /\ MixedParents(last'.changes)
        /\ ~TouchesRoot(last'.changes)) =>
        /\ status' = "error"
        /\ objects' = objects
        /\ held' = objects
        /\ fs' = fs]_vars

\* an update given absolute and relative paths, one of them deleted, raised
C13_Witness ==
    /\ status = "error"
    /\ last.op = "update"
    /\ MixedParents(last.changes)
    /\ ~TouchesRoot(last.changes)
    /\ \E c \in last.changes : c.action = "D"
    /\ held = objects

(***************************************************************************)
(* commonpath alone: a caller hands it a list of paths, absolute or        *)
(* relative, spelled with or without '.' and doubled separators.           *)
(***************************************************************************)
CommonNames == {"a", "b"}

\* the sequences of at most n names
RECURSIVE NameSeqs(_)
NameSeqs(n) ==
    IF n = 0 THEN {<<>>}
    ELSE NameSeqs(n - 1)
             \cup {Append(q, x) : q \in NameSeqs(n - 1), x \in CommonNames}

\* b'' for no name, b'b/a' for the names b, a, and b'a/b' and b'a/.//b' for
\* the names a, b: the paths through a are spelled in both ways
Spellings(q) ==
    IF q = <<>> THEN {<<"">>}
    ELSE IF q[1] = "a" THEN {q, <<q[1], ".", "">> \o Tail(q)}
    ELSE {q}

\* sep + p for a relative spelling p
Rooted(p) == IF p = <<"">> THEN FsRoot ELSE <<"">> \o p

CommonInputs ==
    LET relative == UNION {Spellings(q) : q \in NameSeqs(MaxDepth)}
    IN  relative \cup {Rooted(p) : p \in relative}

\* the sets of at most n of the paths U
RECURSIVE PathSets(_, _)
PathSets(U, n) ==
    IF n = 0 THEN {{}}
    ELSE PathSets(U, n - 1)
             \cup {T \cup {p} : T \in PathSets(U, n - 1), p \in U}

InitCommon ==
    /\ fs = Tree(Slots)
    /\ objects = NoIndex
    /\ held = NoIndex
    /\ cleaned = NoIndex
    /\ status = "none"
    /\ dir_ok = "all"
    /\ remove_empty_folder = FALSE
    /\ pending \in {{[path |-> p, action |-> "M"] : p \in S} :
                       S \in PathSets(CommonInputs, MaxPaths) \ {{}}}
    /\ deep = TRUE
    /\ steps = 0
    /\ last = NoCall

\* commonpath(paths) for the paths the caller holds
Common ==
    /\ last.op = "none"
    /\ \E r \in {commonpath({c.path : c \in pending})} :
           /\ status' = IF r.ok THEN "ok" ELSE "error"
           /\ last' = [op |-> "commonpath", how |-> "", ok |-> r.ok,
                       changes |-> pending, path |-> r.path]
    /\ UNCHANGED <<fs, objects, held, cleaned, dir_ok, remove_empty_folder,
                   pending, deep, steps>>

SpecCommon == InitCommon /\ [][Common]_vars

\* the names of a path, in order
Components(p) == SelectSeq(p, LAMBDA c : c # "" /\ c # ".")

\* the names c lead every one of the paths
SharedBy(c, paths) == \A p \in paths : IsPrefix(c, Components(p))

\* C21: given paths that are all absolute or all relative, commonpath returns
\* the longest sequence of leading names shared by every path: the names of
\* the result lead every path, no longer sequence of names does, and the
\* result is absolute exactly when the paths are.
C21_CommonPath ==
    LET paths == {c.path : c \in last.changes}
        names == Components(last.path)
    IN  (/\ last.op = "commonpath"
         /\ \/ \A p \in paths : p[1] = "" /\ Len(p) > 1
            \/ \A p \in paths : ~(p[1] = "" /\ Len(p) > 1))
            => /\ last.ok
               /\ SharedBy(names, paths)
               /\ \A p \in paths :
                      \A n \in (Len(names) + 1)..Len(Components(p)) :
                          ~SharedBy(SubSeq(Components(p), 1, n), paths)
               /\ \A p \in paths :
                      last.path = IF p[1] = "" /\ Len(p) > 1
                                  THEN Rooted(IF names = <<>> THEN <<"">>
                                              ELSE names)
                                  ELSE IF names = <<>> THEN <<"">> ELSE names

\* commonpath has returned one name for three paths two of which share two
\* names, one path being spelled with '.' and a doubled separator
C21_Witness ==
    LET paths == {c.path : c \in last.changes}
    IN  /\ last.op = "commonpath"
        /\ last.ok
        /\ Cardinality(paths) = MaxPaths
        /\ Len(Components(last.path)) = 1
        /\ \E p \in paths : Components(p) # p /\ Len(p) > 2
        /\ \E p, q \in paths :
               /\ p # q
               /\ Len(CommonPrefix(Components(p), Components(q))) = 2

\* C19: when update is given changes none of which lies right under root,
\* it returns a full walk of root exactly when the common root of the changed
\* paths' parents is not a key of the index after the removal; when it is a
\* key, update walks the common root only and merges.
C19_FallbackDecision ==
    [][(/\ UpdateStep
        /\ pending # {}
        /\ ~TouchesRoot(pending)
        /\ last'.how \in {"fallback", "partial"}) =>
            (last'.how = "fallback")
                <=> (commonpath(impacted_paths(pending)).path
                        \notin DOMAIN cleaned')]_vars

\* the walk of the common root that a partial update performs
PartialWalk(changes) ==
    walk_and_compute_sha1_from_directory(
        fs, commonpath(impacted_paths(changes)).path, dir_ok, FALSE,
        remove_empty_folder)

\* C20: when the common root is a key of the index and lies under root, and
\* its walk has returned, the pass over its ancestors completes without
\* error: the update returns.
C20_AncestorRecompute ==
    [][(/\ UpdateStep
        /\ last'.how = "partial"
        /\ commonpath(impacted_paths(pending)).path \in DOMAIN cleaned'
        /\ IsPrefix(RootDir, commonpath(impacted_paths(pending)).path)
        /\ PartialWalk(pending).ok) =>
            status' = "ok"]_vars

(***************************************************************************)
(* The cascading removal alone: paths are deleted from the filesystem and  *)
(* __remove_paths_from_objects is applied to the index with some filter.   *)
(***************************************************************************)
RemoveFilters == Filters \cup {"none"}

\* the filesystem without the paths and without what lies under them
Deleted(t, paths) ==
    [q \in Slots |-> IF \E p \in paths : IsPrefix(p, q) THEN Absent ELSE t[q]]

Remove ==
    \E rev \in BOOLEAN, f \in RemoveFilters,
       rootpaths \in {S \in SUBSET {q \in Slots \ {RootDir} : Exists(fs, q)} :
                         S # {} /\ Cardinality(S) <= MaxRemoved} :
        /\ status = "ok"
        /\ steps < MaxRemovals
        /\ fs' = Deleted(fs, rootpaths)
        /\ \E r \in {remove_paths_from_objects(objects, rootpaths, f,
                                                Deleted(fs, rootpaths), rev)} :
               /\ objects' = r.objects
               /\ held' = objects       \* the index as the removal found it
               /\ cleaned' = r.objects
               /\ status' = IF r.ok THEN "ok" ELSE "error"
               /\ last' = [op |-> "remove", how |-> f, ok |-> r.ok,
                           changes |-> {[path |-> q, action |-> "D"] :
                                           q \in rootpaths}]
        /\ steps' = steps + 1
        /\ UNCHANGED <<dir_ok, remove_empty_folder, pending, deep>>

NextRemove ==
    \/ Walk
    \/ Remove

SpecRemove == Init /\ [][NextRemove]_vars

RemoveStep == last'.op = "remove" /\ steps' = steps + 1

RemovedPaths(call) == {c.path : c \in call.changes}

\* a removal has returned
Removed == status = "ok" /\ last.op = "remove"

\* C16: when a removed path's parent passes the filter and is a key of the
\* index before and after the removal, the parent's entry list afterwards
\* holds no Entry for the removed path and still holds each of its Entries
\* for paths that were not removed.
C16_StaleReference ==
    [][RemoveStep =>
        \A p \in RemovedPaths(last') :
            LET parent == dirname(p)
            IN  (/\ status' = "ok"
                 /\ dir_ok_fn(last'.how, fs', parent)
                 /\ parent \in DOMAIN objects
                 /\ parent \in DOMAIN objects')
                    => /\ ~HasEntryFor(objects', parent, p)
                       /\ \A i \in 1..Len(objects[parent].items) :
                              objects[parent].items[i].path
                                      \notin RemovedPaths(last')
                                  => \E j \in 1..Len(objects'[parent].items) :
                                         objects'[parent].items[j]
                                             = objects[parent].items[i]]_vars

\* the keys reached from the paths S through tree-typed Entries in at most
\* n steps
RECURSIVE Reachable(_, _, _)
Reachable(index, S, n) ==
    IF n = 0 THEN S
    ELSE Reachable(index,
             S \cup {index[k].items[i].path :
                        <<k, i>> \in {<<k, i>> \in (S \cap DOMAIN index) \X (1..3) :
                            /\ i <= Len(index[k].items)
                            /\ index[k].items[i].type = GitTypeTREE}},
             n - 1)

\* C17: after the removal of a path p from an index in which the path of
\* every tree-typed Entry is a key, neither p nor any directory reached from
\* p through tree-typed Entries, at any depth, is a key.
C17_SubtreeRemoval ==
    [][(RemoveStep /\ status' = "ok" /\ Closure(objects)) =>
        \A p \in RemovedPaths(last') :
            Reachable(objects, {p}, Cardinality(Slots))
                \cap DOMAIN objects' = {}]_vars

\* a removal of directory a has returned, from an index that was closed and
\* in which a was a key from which two further levels of keys were reached
C17_Witness ==
    /\ Removed
    /\ DirA \in RemovedPaths(last)
    /\ Closure(held)
    /\ {DirA, DirB, DirY} \subseteq Reachable(held, {DirA}, Cardinality(Slots))
    /\ {DirA, DirB, DirY} \subseteq DOMAIN held
    /\ RootDir \in DOMAIN objects

\* C18: every removal returns, whatever the index, the removal set and the
\* filter, a filter that rejects every ancestor of a removed path included.
C18_Termination == [][RemoveStep => status' = "ok"]_vars

(***************************************************************************)
(* Properties of the walker alone (SpecWalk).                              *)
(***************************************************************************)
\* walk has just returned an index
Walked == status = "ok" /\ last.op = "walk"

\* the positions of the Entries for path in the entry list of its parent
EntriesFor(index, path) ==
    {i \in 1..Len(index[dirname(path)].items) :
        index[dirname(path)].items[i].path = path}

\* C11: after a walk, every symlink whose parent directory is a key has
\* exactly one Entry in its parent's entry list, a blob with the symlink
\* permission whose digest is the digest of the link target, and is no key.
C11_SymlinkClassification ==
    Walked =>
        \A q \in Slots :
            (islink(fs, q) /\ dirname(q) \in DOMAIN objects) =>
                /\ q \notin DOMAIN objects
                /\ Cardinality(EntriesFor(objects, q)) = 1
                /\ \A i \in EntriesFor(objects, q) :
                       LET e == objects[dirname(q)].items[i]
                       IN  /\ e.type = GitTypeBLOB
                           /\ e.perms = GitPermLINK
                           /\ e.sha1_git = hash_data(fs[q].data)

\* a step of Walk
WalkStep == status \in {"none", "error"} /\ last'.op = "walk" /\ vars' # vars

\* what a walk that removes nothing returns on filesystem t
WalkOnly(t) ==
    walk_and_compute_sha1_from_directory(t, RootDir, dir_ok, TRUE, FALSE)

\* the digest of every tree-typed Entry is the tree digest of the entry
\* list stored under the Entry's path
Merkle(index) ==
    \A p \in DOMAIN index : \A i \in 1..Len(index[p].items) :
        LET e == index[p].items[i]
        IN  (e.type = GitTypeTREE /\ e.path \in DOMAIN index)
                => e.sha1_git = compute_directory_git_sha1(e.path, index)

\* the directories the step removed from the filesystem
Pruned == {d \in DirSlots : fs[d].kind = "dir" /\ fs'[d].kind = "none"}

\* the index is what the hashing loop alone gives on the filesystem the
\* removals left: no removal comes after a hash
HashedAfterPrune ==
    WalkOnly(fs').ok /\ WalkOnly(fs').index = objects' /\ WalkOnly(fs').fs = fs'

\* no key for a removed directory and no Entry referring to one
NoTraceOfPruned ==
    \A d \in Pruned :
        /\ d \notin DOMAIN objects'
        /\ \A k \in DOMAIN objects' : \A i \in 1..Len(objects'[k].items) :
               objects'[k].items[i].path # d

\* C12: a walk asked to remove empty folders, on a tree that a walk without
\* removal indexes, returns; the index it returns is the one the hashing
\* loop gives on the filesystem the removals left, has no key for and no
\* Entry referring to a removed directory, and is self-consistent.
C12_PrunePass ==
    [][(WalkStep /\ remove_empty_folder /\ WalkOnly(fs).ok) =>
        /\ status' = "ok"
        /\ HashedAfterPrune
        /\ NoTraceOfPruned
        /\ Closure(objects') /\ Merkle(objects')
        /\ RootDigest(objects')
               = compute_directory_git_sha1(RootDir, objects')]_vars

\* a sequence of directories in which none comes before a directory under it
PostOrder(gen) ==
    \A i \in 1..Len(gen), j \in 1..Len(gen) :
        (i # j /\ IsPrefix(gen[j].dp, gen[i].dp)) => i < j

\* the hashing loop over the filesystem as it is, from an empty dictionary
HashingLoop ==
    hash_directories(dir_ok, fs,
        [ok |-> TRUE, all_links |-> {}, ls_hashes |-> NoIndex],
        os_walk(fs, RootDir), 1)

\* the directories right under k that the filter admits and that are no
\* symlinks
AdmittedSubdirs(k) ==
    {d \in DirSlots : dirname(d) = k /\ fs[d].kind = "dir"
                        /\ dir_ok_fn(dir_ok, fs, d)}

\* C14: the walk visits every directory after the directories under it;
\* the hashing loop never lacks the key of a subdirectory; and in the index
\* returned every admitted subdirectory of a key that is no symlink is a key
\* with a tree Entry in its parent's list whose digest is the tree digest of
\* its own, complete, entry list.
C14_PostOrder ==
    /\ PostOrder(os_walk(fs, RootDir))
    /\ HashingLoop.ok
    /\ Walked =>
           \A k \in DOMAIN objects \ {ROOT_TREE_KEY} :
               \A d \in AdmittedSubdirs(k) :
                   /\ d \in DOMAIN objects
                   /\ \E i \in 1..Len(objects[k].items) :
                          /\ objects[k].items[i].path = d
                          /\ objects[k].items[i].type = GitTypeTREE
                          /\ objects[k].items[i].sha1_git
                                 = compute_directory_git_sha1(d, objects)

\* a walk has returned an index with directories three levels deep
C14_Witness ==
    /\ Walked
    /\ DirY \in DOMAIN objects
    /\ DirY \in AdmittedSubdirs(DirB)
    /\ DirB \in AdmittedSubdirs(DirA)
    /\ DirC \in AdmittedSubdirs(RootDir)

\* the same tree, every directory listing its names in the other order
Relisted(t) ==
    [q \in Slots |-> IF t[q].kind # "dir" THEN t[q]
                     ELSE IF t[q].data = "rev" THEN Dir ELSE DirRev]

WalkOf(t) ==
    walk_and_compute_sha1_from_directory(t, RootDir, dir_ok, TRUE,
                                         remove_empty_folder)

EntrySet(index, k) == {index[k].items[i] : i \in 1..Len(index[k].items)}

\* the same keys, and under every key the same Entries with the same digests
SameKeysAndDigests(index, index2) ==
    /\ DOMAIN index = DOMAIN index2
    /\ \A k \in DOMAIN index : EntrySet(index, k) = EntrySet(index2, k)

\* C15: two runs of walk on the same tree, whatever the order in which its
\* directories list their names, both raise or return the same keys and
\* the same digest for every Entry, the sentinel root Entry included; and a
\* second run on the tree a first run left as it found it returns the index
\* of the first.
C15_Determinism ==
    /\ WalkOf(fs).ok = WalkOf(Relisted(fs)).ok
    /\ WalkOf(fs).ok =>
           SameKeysAndDigests(WalkOf(fs).index, WalkOf(Relisted(fs)).index)
    /\ (Walked /\ WalkOf(fs).fs = fs) => WalkOf(fs).index = objects

\* a walk has returned the index of a tree that lists its names in another
\* order when walked again
C15_Witness ==
    /\ Walked
    /\ WalkOf(fs).fs = fs
    /\ WalkOf(Relisted(fs)).ok
    /\ WalkOf(Relisted(fs)).index[RootDir].items # objects[RootDir].items
    /\ WalkOf(Relisted(fs)).index[ROOT_TREE_KEY] = objects[ROOT_TREE_KEY]

(***************************************************************************)
(* The removal of empty folders, in a walk and in the walk an update makes.*)
(***************************************************************************)
\* the directory that the call of this step walks
WalkedRoot ==
    IF last'.op = "update" /\ last'.how = "partial"
    THEN commonpath(impacted_paths(pending)).path
    ELSE RootDir

\* the directories that the call of this step removes
RemovedDirs == {d \in DirSlots : isdir(fs, d) /\ ~Exists(fs', d)}

\* C22: a walk or an update that removes empty folders removes only
\* directories that lie in the subtree it walks and pass the filter, and none
\* that holds a file at any depth.
C22_PruneContainment ==
    [][((WalkStep \/ UpdateStep) /\ remove_empty_folder) =>
        \A d \in RemovedDirs :
            /\ IsPrefix(WalkedRoot, d)
            /\ dir_ok_fn(dir_ok, fs, d)
            /\ \A q \in FileSlots : IsPrefix(d, q) => ~Exists(fs, q)]_vars

\* C23: after updates given every change made to the filesystem, the keys of
\* the index are the keys of a full walk of the filesystem as it is now; every
\* key other than the sentinel and root has a tree-typed Entry in the entry
\* list of its parent, and no directory that is gone is a key.
C23_NoOrphanKeys ==
    (Returned /\ FullWalk.ok) =>
        /\ DOMAIN objects = DOMAIN FullWalk.index
        /\ \A k \in DOMAIN objects \ {ROOT_TREE_KEY, RootDir} :
               /\ dirname(k) \in DOMAIN objects
               /\ \E i \in 1..Len(objects[dirname(k)].items) :
                      /\ objects[dirname(k)].items[i].path = k
                      /\ objects[dirname(k)].items[i].type = GitTypeTREE
        /\ \A d \in DirSlots : ~Exists(fs, d) => d \notin DOMAIN objects

(***************************************************************************)
(* The frame of the cascading removal (SpecRemove).                        *)
(***************************************************************************)
\* the paths a removal of the paths S may delete: S, what is reached from
\* them through tree-typed Entries, the parents that fail the filter f on
\* filesystem t, and what is reached from those
CascadeStep(index, S, f, t) ==
    Reachable(index, S, 1)
        \cup {dirname(p) : p \in {q \in S : ~dir_ok_fn(f, t, dirname(q))}}

RECURSIVE CascadeFrom(_, _, _, _, _)
CascadeFrom(index, S, S2, f, t) ==
    IF S2 = S THEN S
    ELSE CascadeFrom(index, S2, CascadeStep(index, S2, f, t), f, t)

Cascade(index, S, f, t) ==
    CascadeFrom(index, S, CascadeStep(index, S, f, t), f, t)

\* the frame of a removal from index to index2 that may delete the paths gone
RemovalFrame(index, index2, gone) ==
    /\ DOMAIN index2 \subseteq DOMAIN index
    /\ \A k \in DOMAIN index :
           IF k \notin DOMAIN index2 THEN k \in gone
           ELSE /\ \A i \in 1..Len(index[k].items) :
                      index[k].items[i].path \notin gone
                          => \E j \in 1..Len(index2[k].items) :
                                 index2[k].items[j] = index[k].items[i]
                /\ \A j \in 1..Len(index2[k].items) :
                      \E i \in 1..Len(index[k].items) :
                          index[k].items[i] = index2[k].items[j]

\* C24: a removal deletes a key only if it is a removed path, a directory
\* reached from one through tree-typed Entries, a parent that fails the
\* filter once its child is gone, or a directory reached from such a parent;
\* it adds no key, and every key it leaves keeps its Entries, but for those
\* of deleted paths, and gains none (held is the index the removal was
\* given, objects the index it leaves, fs the filesystem it tests).
C24_RemovalFrame ==
    last.op = "remove" =>
        RemovalFrame(held, objects,
                     Cascade(held, RemovedPaths(last), last.how, fs))

\* a removal has returned that deleted the key of a parent which was no
\* removed path, and left another directory its entry list
C24_Witness ==
    /\ Removed
    /\ \E p \in RemovedPaths(last) :
           /\ dirname(p) \in DOMAIN held
           /\ dirname(p) \notin DOMAIN objects
           /\ dirname(p) \notin RemovedPaths(last)
    /\ \E k \in DOMAIN objects \ {ROOT_TREE_KEY, RootDir} :
           /\ objects[k].items = held[k].items
           /\ objects[k].items # <<>>

====
